---- MODULE Spec2Model ----
(***************************************************************************)
(* super-memo: the card store (CardsService), the SM-2 review update, the  *)
(* due-card selection and the CLI review session (CliService).             *)
(*                                                                         *)
(* JavaScript numbers that can be fractional (EF, rating) are fixed-point  *)
(* integers in units of 1/Scale: 2.5 is 2500, rating 3 is 3000.  The       *)
(* arithmetic of calculateNewEF is exact in this unit for every rating     *)
(* that is a multiple of 0.5.  Timestamps are integer clock ticks; an ISO  *)
(* date string is the record [date, time] of its calendar day and its      *)
(* time of day.                                                            *)
(***************************************************************************)
EXTENDS Integers, Sequences, FiniteSets, TLC

VARIABLES
    file,           \* src/data/cards.json: [state, cards]; state is "absent",
                    \* "ok" (the JSON text of cards) or "corrupt" (text that
                    \* JSON.parse rejects; cards are those whose text is in it)
    now,            \* the system clock (new Date()), in ticks
    nextId,         \* how many ids uuidv4() has handed out
    pc,             \* where the CLI is: "menu", "filter" (the tag prompt of
                    \* reviewCards), "present" (a card is shown and awaits its
                    \* rating), "notes" (the notes prompt), "crashed"
    dueCards,       \* reviewCards: the local dueCards
    cardsToReview,  \* reviewCards: the local cardsToReview (the session queue)
    idx,            \* reviewCards: position of the for..of loop in cardsToReview
    last,           \* the call on CardsService made by the latest step, with
                    \* what it returned (NoCall when the step made none)
    ai              \* AIService.generateCardsFromText: the locals retries and
                    \* modelIndex of the call, the requests it made, where it
                    \* is and what it returned

vars == <<file, now, nextId, pc, dueCards, cardsToReview, idx, last, ai>>

(***************************************************************************)
(* Bounds of the model.                                                    *)
(***************************************************************************)
MaxBlocks == 2      \* blocks of one raw AI answer
DayTicks == 2       \* clock ticks per calendar day

\* SpecReview: the review update, every rating
ReviewMaxCards == 1     \* cards ever created
ReviewMaxReviews == 3   \* reviews recorded in the store

\* SpecDue: the due queue
DueMaxCards == 2
DueMaxReviews == 2
DueMaxTime == 2

\* SpecTags: the tag filter
TagsMaxCards == 3

\* SpecStore: the writes of the store
StoreMaxCards == 1
StoreMaxReviews == 2

\* SpecFives: the growth of the interval
FivesMaxCards == 2
FivesMaxReviews == 6

\* SpecFilter: sessions with and without the tag filter
FilterMaxCards == 2
FilterMaxReviews == 1
FilterMaxTime == 2

\* SpecUpcoming: the window of upcoming reviews
UpcomingMaxCards == 1
UpcomingMaxReviews == 4
UpcomingMaxTime == 2

\* SpecStats: the statistics
StatsMaxCards == 2
StatsMaxReviews == 2
StatsMaxTime == 2

\* SpecSession: the review session of the CLI
SessionMaxCards == 2
SessionMaxReviews == 3

Scale == 1000

Num(n) == n * Scale

undefined == <<>>
Some(x) == <<x>>
IsDefined(o) == o # undefined
Val(o) == o[1]

Max(a, b) == IF a >= b THEN a ELSE b

\* The ratings callers pass: the six of the CLI's list, and numbers outside it.
CliRatings == {Num(r) : r \in 0..5}
OtherRatings == {Num(6), Num(2) + Scale \div 2}
Ratings == CliRatings \cup OtherRatings

\* the ratings at and beside the thresholds of the due queue's tiers
TierRatings == {Num(2), Num(2) + Scale \div 2, Num(3), Num(4)}

TagNames == {"t1", "t2"}
NoteTexts == {"n1"}

\* One block of a raw answer: what the Q: and A: patterns capture ("" = no match).
Blocks == {[q |-> "Q", a |-> "A"], [q |-> "", a |-> "A"]}
RawTexts == UNION {[1..n -> Blocks] : n \in 1..MaxBlocks}

(***************************************************************************)
(* Dates.                                                                  *)
(***************************************************************************)
\* Date.prototype.toISOString: "<calendar day>T<time of day>Z"
toISOString(t) == [date |-> t \div DayTicks, time |-> t % DayTicks]

\* new Date(isoString)
parseDate(s) == s.date * DayTicks + s.time

\* d.setDate(d.getDate() + n)
addDays(t, n) == t + n * DayTicks

(***************************************************************************)
(* CardsService: load, parseCards.                                         *)
(***************************************************************************)
\* load(): the parsed file, [] when reading or parsing throws
load == IF file.state = "ok" THEN file.cards ELSE <<>>

\* fs.writeFile(this.file, JSON.stringify(cards))
written(cards) == [state |-> "ok", cards |-> cards]

\* fs.writeFile(this.file, JSON.stringify(cards)) when the process is killed
\* inside it: writeFile opens the file with flag 'w', which truncates it, and
\* then writes the text; what is left is a proper prefix of the text, and no
\* proper prefix of the JSON text of an array is JSON
torn(cards) ==
    {[state |-> "corrupt", cards |-> SubSeq(cards, 1, k)] : k \in 0..Len(cards)}

newCard(id, block, t) ==
    [id |-> id, question |-> block.q, answer |-> block.a,
     EF |-> 2500, interval |-> 0, repetition |-> 0,
     dueDate |-> toISOString(t), tags |-> {}, notes |-> undefined,
     lastReview |-> undefined, performance |-> <<>>, lastRating |-> undefined]

RECURSIVE parseFrom(_, _, _, _)
parseFrom(raw, i, id, t) ==
    IF i > Len(raw) THEN <<>>
    ELSE IF raw[i].q = "" \/ raw[i].a = "" THEN parseFrom(raw, i + 1, id, t)
    ELSE <<newCard(id, raw[i], t)>> \o parseFrom(raw, i + 1, id + 1, t)

parseCards(raw, t) == parseFrom(raw, 1, nextId + 1, t)

\* cards.findIndex(c => c.id === cardId): 0 stands for -1
findIndex(cards, cardId) ==
    IF \E i \in 1..Len(cards) : cards[i].id = cardId
    THEN CHOOSE i \in 1..Len(cards) :
            /\ cards[i].id = cardId
            /\ \A j \in 1..(i - 1) : cards[j].id # cardId
    ELSE 0

(***************************************************************************)
(* CardsService: the SM-2 update of reviewCard.                            *)
(***************************************************************************)
\* (mutant) the penalty is linear in 5 - rating
calculateNewEF_linear(currentEF, rating) ==
    currentEF + (100 - ((Num(5) - rating) * 80) \div Scale)

calculateNewEF(currentEF, rating) ==
    currentEF + (100 - ((Num(5) - rating)
                        * (80 + ((Num(5) - rating) * 20) \div Scale)) \div Scale)

\* (mutant) the floor is forgotten
clampEF_none(newEF) == newEF

\* card.EF = Math.max(1.3, newEF)
clampEF(newEF) == Max(1300, newEF)

\* Math.round(interval * EF).  The product of the doubles differs from the exact
\* product by less than any fixed-point unit, so it only decides the direction of
\* an exact tie (x.5): there either neighbour can come out.
MathRound(p) ==
    IF p % Scale = Scale \div 2
    THEN {p \div Scale, p \div Scale + 1}
    ELSE {(p + Scale \div 2) \div Scale}

\* (mutant) the interval grows by the ease factor the card had before the review
nextIntervals_preEF(card, EF, rating) ==
    IF rating >= Num(3)
    THEN IF card.repetition = 0 THEN {1}
         ELSE IF card.repetition = 1 THEN {6}
         ELSE MathRound(card.interval * card.EF)
    ELSE {1}

\* (mutant) from the third success on the interval stays at 6
nextIntervals_sixForEver(card, EF, rating) ==
    IF rating >= Num(3)
    THEN IF card.repetition = 0 THEN {1}
         ELSE {6}
    ELSE {1}

\* (mutant) a failure leaves the interval as it is
nextIntervals_keptOnFail(card, EF, rating) ==
    IF rating >= Num(3)
    THEN IF card.repetition = 0 THEN {1}
         ELSE IF card.repetition = 1 THEN {6}
         ELSE MathRound(card.interval * EF)
    ELSE {card.interval}

\* (mutant) a failed card is due at once
nextIntervals_failZero(card, EF, rating) ==
    IF rating >= Num(3)
    THEN IF card.repetition = 0 THEN {1}
         ELSE IF card.repetition = 1 THEN {6}
         ELSE MathRound(card.interval * EF)
    ELSE {0}

\* lines 145-160: the intervals the review can set, EF being the updated one
nextIntervals(card, EF, rating) ==
    IF rating >= Num(3)
    THEN IF card.repetition = 0 THEN {1}
         ELSE IF card.repetition = 1 THEN {6}
         ELSE MathRound(card.interval * EF)
    ELSE {1}

\* (mutant) a failure leaves the count as it is
nextRepetition_kept(card, rating) ==
    IF rating >= Num(3) THEN card.repetition + 1 ELSE card.repetition

nextRepetition(card, rating) ==
    IF rating >= Num(3) THEN card.repetition + 1 ELSE 0

\* (mutant) the interval is added in clock ticks, not in days
nextDueDate_ticks(t, interval) == toISOString(t + interval)

\* lines 163-165
nextDueDate(t, interval) == toISOString(addDays(t, interval))

\* (mutant) the flag uses the threshold of a successful recall
needsReReview_lt3(rating) == rating < Num(3)

\* (mutant) every card is flagged
needsReReview_always(rating) == TRUE

\* (mutant) a rating of 4 asks for a re-review too
needsReReview_upTo4(rating) == rating <= Num(4)

\* line 175
needsReReview(rating) == rating < Num(4)

\* (mutant) the history keeps the latest rating only
reviewed_lastOnly(card, rating, t) ==
    LET EF == clampEF(calculateNewEF(card.EF, rating)) IN
    {[card EXCEPT !.lastRating = Some(rating),
                  !.performance = <<rating>>,
                  !.lastReview = Some(toISOString(t)),
                  !.EF = EF,
                  !.interval = iv,
                  !.repetition = nextRepetition(card, rating),
                  !.dueDate = nextDueDate(t, iv)]
        : iv \in nextIntervals(card, EF, rating)}

\* lines 129-165: the cards the review of `card` can produce at time t
reviewed(card, rating, t) ==
    LET EF == clampEF(calculateNewEF(card.EF, rating)) IN
    {[card EXCEPT !.lastRating = Some(rating),
                  !.performance = Append(card.performance, rating),
                  !.lastReview = Some(toISOString(t)),
                  !.EF = EF,
                  !.interval = iv,
                  !.repetition = nextRepetition(card, rating),
                  !.dueDate = nextDueDate(t, iv)]
        : iv \in nextIntervals(card, EF, rating)}

\* (mutant) the updated card is returned and the file is not written
reviewCard_notSaved(cardId, rating, t) ==
    LET cards == load
        cardIndex == findIndex(cards, cardId)
    IN  IF cardIndex = 0
        THEN {[err |-> "Card not found", file |-> file, card |-> undefined,
               needsReReview |-> FALSE]}
        ELSE {[err |-> "", file |-> file,
               card |-> Some(c), needsReReview |-> needsReReview(rating)]
                : c \in reviewed(cards[cardIndex], rating, t)}

\* (mutant) the updated card is put in the first place of the array
reviewCard_firstPlace(cardId, rating, t) ==
    LET cards == load
        cardIndex == findIndex(cards, cardId)
    IN  IF cardIndex = 0
        THEN {[err |-> "Card not found", file |-> file, card |-> undefined,
               needsReReview |-> FALSE]}
        ELSE {[err |-> "", file |-> written([cards EXCEPT ![1] = c]),
               card |-> Some(c), needsReReview |-> needsReReview(rating)]
                : c \in reviewed(cards[cardIndex], rating, t)}

\* reviewCard(cardId, rating): every outcome, as [err, file, card, needsReReview]
reviewCard(cardId, rating, t) ==
    LET cards == load
        cardIndex == findIndex(cards, cardId)
    IN  IF cardIndex = 0
        THEN {[err |-> "Card not found", file |-> file, card |-> undefined,
               needsReReview |-> FALSE]}
        ELSE {[err |-> "", file |-> written([cards EXCEPT ![cardIndex] = c]),
               card |-> Some(c), needsReReview |-> needsReReview(rating)]
                : c \in reviewed(cards[cardIndex], rating, t)}

(***************************************************************************)
(* CardsService: selection.                                                *)
(***************************************************************************)
\* (mutant) a card due exactly now is not yet due
isDue_strict(card, t) == parseDate(card.dueDate) < t

\* new Date(card.dueDate) <= now
isDue(card, t) == parseDate(card.dueDate) <= t

\* (mutant) a missing lastRating counts as 0: (card.lastRating || 0) <= 2
isFailed_missingAsZero(card) ==
    ~IsDefined(card.lastRating) \/ Val(card.lastRating) <= Num(2)

isFailed(card) == IsDefined(card.lastRating) /\ Val(card.lastRating) <= Num(2)
isDifficult(card) == IsDefined(card.lastRating) /\ Val(card.lastRating) = Num(3)
isRemaining(card) == ~IsDefined(card.lastRating) \/ Val(card.lastRating) > Num(3)

\* (mutant) the due cards are left in store order
prioritize_none(due) == due

\* lines 73-92
prioritize(due) ==
    SelectSeq(due, isFailed) \o SelectSeq(due, isDifficult) \o SelectSeq(due, isRemaining)

getDueCards(includeFailed, t) ==
    LET due == SelectSeq(load, LAMBDA card : isDue(card, t))
    IN  IF includeFailed THEN prioritize(due) ELSE due

\* (mutant) a card must carry every tag asked for
matchesTags_all(card, tags) == \A tag \in tags : tag \in card.tags

\* tags.some(tag => card.tags.includes(tag))
matchesTags(card, tags) == \E tag \in tags : tag \in card.tags

getCardsByTags(tags) ==
    IF tags = {} THEN load
    ELSE SelectSeq(load, LAMBDA card : matchesTags(card, tags))

(***************************************************************************)
(* CardsService: statistics.                                               *)
(***************************************************************************)
\* cards.reduce((sum, card) => sum + card.EF, 0), from place i on
RECURSIVE SumEF(_, _)
SumEF(cards, i) ==
    IF i > Len(cards) THEN 0 ELSE cards[i].EF + SumEF(cards, i + 1)

\* (mutant) the sum is not divided by the number of cards
avgEaseFactor_sum(cards) ==
    IF Len(cards) = 0 THEN 0 ELSE SumEF(cards, 1)

\* sum / cards.length || 0: 0 / 0 is NaN, and NaN || 0 is 0.  The quotient is
\* kept to the unit 1/Scale.
avgEaseFactor(cards) ==
    IF Len(cards) = 0 THEN 0 ELSE SumEF(cards, 1) \div Len(cards)

\* new Date(card.lastReview).toISOString().split('T')[0]
reviewDate(card) == toISOString(parseDate(Val(card.lastReview))).date

\* (mutant) every entry of the history is counted, under the day of the last
\* review
reviewsByDay_perEntry(cards) ==
    LET at == {i \in 1..Len(cards) : IsDefined(cards[i].lastReview)} IN
    [k \in {reviewDate(cards[i]) : i \in at} |->
        Cardinality({p \in UNION {{<<i, j>> : j \in 1..Len(cards[i].performance)}
                                    : i \in at} :
                        reviewDate(cards[p[1]]) = k})]

\* lines 243-247: the Record<string, number> built by
\* reviewsByDay[reviewDate] = (reviewsByDay[reviewDate] || 0) + 1
reviewsByDay(cards) ==
    LET at == {i \in 1..Len(cards) : IsDefined(cards[i].lastReview)} IN
    [k \in {reviewDate(cards[i]) : i \in at} |->
        Cardinality({i \in at : reviewDate(cards[i]) = k})]

\* dueDate.toISOString().split('T')[0]
dueDateStr(card) == toISOString(parseDate(card.dueDate)).date

\* (mutant) a card due exactly thirty days from now is left out
upcomingReviews_before30(cards, t) ==
    LET at == {i \in 1..Len(cards) : /\ parseDate(cards[i].dueDate) >= t
                                      /\ parseDate(cards[i].dueDate) < addDays(t, 30)}
    IN  [k \in {dueDateStr(cards[i]) : i \in at} |->
            Cardinality({i \in at : dueDateStr(cards[i]) = k})]

\* lines 249-260: dueDate >= now && dueDate <= thirtyDaysFromNow, counted as
\* upcomingReviews[dueDateStr] = (upcomingReviews[dueDateStr] || 0) + 1
upcomingReviews(cards, t) ==
    LET at == {i \in 1..Len(cards) : /\ parseDate(cards[i].dueDate) >= t
                                      /\ parseDate(cards[i].dueDate) <= addDays(t, 30)}
    IN  [k \in {dueDateStr(cards[i]) : i \in at} |->
            Cardinality({i \in at : dueDateStr(cards[i]) = k})]

\* lines 233-241: performanceDistribution[rating]++ for 0 <= rating <= 5; the
\* array index r + 1 here is the JavaScript index r.  A rating that is not an
\* integer sets a property of the array that is none of its six elements.
performanceDistribution(cards) ==
    [r \in 1..6 |->
        Cardinality({p \in UNION {{<<i, j>> : j \in 1..Len(cards[i].performance)}
                                    : i \in 1..Len(cards)} :
                        cards[p[1]].performance[p[2]] = Num(r - 1)})]

\* getCardStats()
getCardStats(t) ==
    LET cards == load IN
    [totalCards |-> Len(cards),
     dueCards |-> Cardinality({i \in 1..Len(cards) : isDue(cards[i], t)}),
     avgEaseFactor |-> avgEaseFactor(cards),
     reviewsByDay |-> reviewsByDay(cards),
     upcomingReviews |-> upcomingReviews(cards, t),
     performanceDistribution |-> performanceDistribution(cards)]

(***************************************************************************)
(* CardsService: tag and notes editing.                                    *)
(***************************************************************************)
\* updateCardTags / updateCardNotes: [err, file, card]
updateCardTags(cardId, tags) ==
    LET cards == load
        cardIndex == findIndex(cards, cardId)
    IN  IF cardIndex = 0
        THEN [err |-> "Card with ID not found", file |-> file, card |-> undefined]
        ELSE LET c == [cards[cardIndex] EXCEPT !.tags = tags]
             IN  [err |-> "", file |-> written([cards EXCEPT ![cardIndex] = c]),
                  card |-> Some(c)]

\* (a variant of updateCardNotes without the check of the index)
updateCardNotes_unchecked(cardId, notes) ==
    LET cards == load
        cardIndex == findIndex(cards, cardId)
    IN  IF cardIndex = 0
        THEN [err |-> "", file |-> written(cards), card |-> undefined]
        ELSE LET c == [cards[cardIndex] EXCEPT !.notes = Some(notes)]
             IN  [err |-> "", file |-> written([cards EXCEPT ![cardIndex] = c]),
                  card |-> Some(c)]

updateCardNotes(cardId, notes) ==
    LET cards == load
        cardIndex == findIndex(cards, cardId)
    IN  IF cardIndex = 0
        THEN [err |-> "Card with ID not found", file |-> file, card |-> undefined]
        ELSE LET c == [cards[cardIndex] EXCEPT !.notes = Some(notes)]
             IN  [err |-> "", file |-> written([cards EXCEPT ![cardIndex] = c]),
                  card |-> Some(c)]

(***************************************************************************)
(* AIService: generateCardsFromText.                                       *)
(***************************************************************************)
maxRetries == 3

\* the free models, in order of preference; modelIndex counts from 0
freeModels ==
    <<"nousresearch/hermes-3-llama-3.1-405b:free",
      "google/gemini-2.0-flash-exp:free",
      "mistralai/mistral-7b-instruct:free">>

\* the texts passed in, as their length and their length when trimmed
Texts ==
    {[length |-> 0, trimmed |-> 0], [length |-> 3, trimmed |-> 0],
     [length |-> 4000, trimmed |-> 4000], [length |-> 4001, trimmed |-> 4001]}

\* validateInputText
validateInputText(text) ==
    IF text.length = 0 \/ text.trimmed = 0 THEN FALSE
    ELSE IF text.length > 4000 THEN FALSE
    ELSE TRUE

\* what lines 167-173 end in: a response with its content, or an error with
\* its status (0: it has none) and message, thrown by the API, by the timeout
\* or by the reading of a response that has no choices
Responses ==
    {[ok |-> TRUE, status |-> 0, text |-> content] : content \in {"", "Q: q A: a"}}

Errors ==
    {[ok |-> FALSE, status |-> status, text |-> "API error"]
        : status \in {429, 404, 400, 401, 403, 402, 500}}
    \cup {[ok |-> FALSE, status |-> 0, text |-> message]
            : message \in {"network down", "Request timed out", "aborted",
                           "Cannot read properties of undefined"}}

Outcomes == Responses \cup Errors

\* formatFlashcards
formatFlashcards(content) ==
    IF content = "" THEN "No flashcards were generated."
    ELSE "Q: q A: a ---"

\* lines 199-213: the message the catch of generateCardsFromText returns
errorMessage(error) ==
    IF error.status = 429 THEN "Rate limit exceeded."
    ELSE IF error.status = 401 \/ error.status = 403 THEN "Authentication error."
    ELSE IF error.status = 402 THEN "Insufficient credits."
    ELSE IF error.text = "network down" THEN "Network error."
    ELSE IF error.text = "Request timed out" THEN "The request timed out."
    ELSE IF error.text = "aborted" THEN "The request was aborted."
    ELSE IF error.text = "API error" THEN "Error generating flashcards: API error"
    ELSE "Error generating flashcards: Cannot read properties of undefined"

\* no call of generateCardsFromText was made yet
NoGeneration ==
    [pc |-> "idle", modelIndex |-> 0, retries |-> 0, requests |-> 0, result |-> ""]

\* (mutant) the retries are counted anew for each model
afterError_perModel(a, error) ==
    IF error.status = 429 /\ a.retries < maxRetries
    THEN [a EXCEPT !.retries = a.retries + 1, !.requests = a.requests + 1]
    ELSE IF (error.status = 404 \/ error.status = 400)
            /\ a.modelIndex < Len(freeModels) - 1
    THEN [a EXCEPT !.modelIndex = a.modelIndex + 1, !.retries = 0,
                   !.requests = a.requests + 1]
    ELSE [a EXCEPT !.pc = "threw"]

\* lines 174-190: the catch of makeRequest retries the model, falls back to the
\* next one or throws the error again
afterError(a, error) ==
    IF error.status = 429 /\ a.retries < maxRetries
    THEN [a EXCEPT !.retries = a.retries + 1, !.requests = a.requests + 1]
    ELSE IF (error.status = 404 \/ error.status = 400)
            /\ a.modelIndex < Len(freeModels) - 1
    THEN [a EXCEPT !.modelIndex = a.modelIndex + 1, !.requests = a.requests + 1]
    ELSE [a EXCEPT !.pc = "threw"]

(***************************************************************************)
(* The state machine.                                                      *)
(***************************************************************************)
\* What `last` records of a call: its name, its arguments, the error it threw
\* ("" = none), the cards it returned and the flag it returned; stats is what
\* getCardStats returned.
Call(op, cardId, rating, tags, flag, err, result) ==
    [op |-> op, cardId |-> cardId, rating |-> rating, tags |-> tags,
     flag |-> flag, err |-> err, result |-> result, stats |-> undefined]

NoCall == Call("", 0, 0, {}, FALSE, "", <<>>)

\* the ids callers pass: those handed out, and one that was not
CardIds == 1..(nextId + 1)

RECURSIVE SumPerformance(_, _)
SumPerformance(cards, i) ==
    IF i > Len(cards) THEN 0
    ELSE Len(cards[i].performance) + SumPerformance(cards, i + 1)

\* reviews recorded in the store
TotalReviews == SumPerformance(load, 1)

Init ==
    /\ file = [state |-> "absent", cards |-> <<>>]
    /\ now = 0
    /\ nextId = 0
    /\ pc = "menu"
    /\ dueCards = <<>>
    /\ cardsToReview = <<>>
    /\ idx = 0
    /\ last = NoCall
    /\ ai = NoGeneration

\* time passes
Tick ==
    /\ now' = now + 1
    /\ last' = NoCall
    /\ UNCHANGED <<file, nextId, pc, dueCards, cardsToReview, idx>>
    /\ UNCHANGED ai

\* (mutant) the new cards are put before the stored ones
SaveRawCards_inFront(raw) ==
    LET parsed == parseCards(raw, now) IN
    /\ pc = "menu"
    /\ file' = written(parsed \o load)
    /\ nextId' = nextId + Len(parsed)
    /\ last' = Call("saveRawCards", 0, 0, {}, FALSE, "", parsed)
    /\ UNCHANGED <<now, pc, dueCards, cardsToReview, idx>>
    /\ UNCHANGED ai

\* saveRawCards(raw)
SaveRawCards(raw) ==
    LET parsed == parseCards(raw, now) IN
    /\ pc = "menu"
    /\ file' = written(load \o parsed)
    /\ nextId' = nextId + Len(parsed)
    /\ last' = Call("saveRawCards", 0, 0, {}, FALSE, "", parsed)
    /\ UNCHANGED <<now, pc, dueCards, cardsToReview, idx>>
    /\ UNCHANGED ai

\* reviewCard(cardId, rating), called on the service
ReviewCard(cardId, rating) ==
    /\ pc = "menu"
    /\ \E out \in reviewCard(cardId, rating, now) :
        /\ file' = out.file
        /\ last' = Call("reviewCard", cardId, rating, {}, out.needsReReview,
                        out.err, out.card)
    /\ UNCHANGED <<now, nextId, pc, dueCards, cardsToReview, idx>>
    /\ UNCHANGED ai

\* updateCardTags(cardId, tags), called on the service (tagCard)
UpdateCardTags(cardId, tags) ==
    LET out == updateCardTags(cardId, tags) IN
    /\ pc = "menu"
    /\ file' = out.file
    /\ last' = Call("updateCardTags", cardId, 0, tags, FALSE, out.err, out.card)
    /\ UNCHANGED <<now, nextId, pc, dueCards, cardsToReview, idx>>
    /\ UNCHANGED ai

\* updateCardNotes(cardId, notes), called on the service (manageNotes)
UpdateCardNotes(cardId, notes) ==
    LET out == updateCardNotes(cardId, notes) IN
    /\ pc = "menu"
    /\ file' = out.file
    /\ last' = Call("updateCardNotes", cardId, 0, {}, FALSE, out.err, out.card)
    /\ UNCHANGED <<now, nextId, pc, dueCards, cardsToReview, idx>>
    /\ UNCHANGED ai

\* (mutant) the list that was selected is written back as the store
GetDueCards_saved(includeFailed) ==
    /\ pc = "menu"
    /\ last' = Call("getDueCards", 0, 0, {}, includeFailed, "",
                    getDueCards(includeFailed, now))
    /\ file' = written(getDueCards(includeFailed, now))
    /\ UNCHANGED <<now, nextId, pc, dueCards, cardsToReview, idx>>
    /\ UNCHANGED ai

\* getDueCards(includeFailed), called on the service
GetDueCards(includeFailed) ==
    /\ pc = "menu"
    /\ last' = Call("getDueCards", 0, 0, {}, includeFailed, "",
                    getDueCards(includeFailed, now))
    /\ UNCHANGED <<file, now, nextId, pc, dueCards, cardsToReview, idx>>
    /\ UNCHANGED ai

\* getCardsByTags(tags), called on the service
GetCardsByTags(tags) ==
    /\ pc = "menu"
    /\ last' = Call("getCardsByTags", 0, 0, tags, FALSE, "", getCardsByTags(tags))
    /\ UNCHANGED <<file, now, nextId, pc, dueCards, cardsToReview, idx>>
    /\ UNCHANGED ai

\* getCardStats(), called on the service (showStatistics)
GetCardStats ==
    /\ pc = "menu"
    /\ last' = [Call("getCardStats", 0, 0, {}, FALSE, "", <<>>)
                    EXCEPT !.stats = Some(getCardStats(now))]
    /\ UNCHANGED <<file, now, nextId, pc, dueCards, cardsToReview, idx>>
    /\ UNCHANGED ai

\* load(), called on the service (manageNotes)
Load ==
    /\ pc = "menu"
    /\ last' = Call("load", 0, 0, {}, FALSE, "", load)
    /\ UNCHANGED <<file, now, nextId, pc, dueCards, cardsToReview, idx>>
    /\ UNCHANGED ai

\* The process is killed inside the fs.writeFile of a handler that was about
\* to write cards, and the CLI is started again.
Killed(op, cardId, cards) ==
    /\ pc = "menu"
    /\ file' \in torn(cards)
    /\ last' = Call(op, cardId, 0, {}, FALSE, "killed", <<>>)
    /\ UNCHANGED <<now, pc, dueCards, cardsToReview, idx>>
    /\ UNCHANGED ai

\* saveRawCards(raw), killed inside its fs.writeFile
SaveRawCardsKilled(raw) ==
    LET parsed == parseCards(raw, now) IN
    /\ Killed("saveRawCards", 0, load \o parsed)
    /\ nextId' = nextId + Len(parsed)

\* reviewCard(cardId, rating), killed inside its fs.writeFile
ReviewCardKilled(cardId, rating) ==
    /\ \E out \in reviewCard(cardId, rating, now) :
        out.err = "" /\ Killed("reviewCard", cardId, out.file.cards)
    /\ UNCHANGED nextId

\* updateCardTags(cardId, tags), killed inside its fs.writeFile
UpdateCardTagsKilled(cardId, tags) ==
    LET out == updateCardTags(cardId, tags) IN
    /\ out.err = ""
    /\ Killed("updateCardTags", cardId, out.file.cards)
    /\ UNCHANGED nextId

\* updateCardNotes(cardId, notes), killed inside its fs.writeFile
UpdateCardNotesKilled(cardId, notes) ==
    LET out == updateCardNotes(cardId, notes) IN
    /\ out.err = ""
    /\ Killed("updateCardNotes", cardId, out.file.cards)
    /\ UNCHANGED nextId

(***************************************************************************)
(* CliService: the review session (reviewCards, reviewSingleCard).         *)
(***************************************************************************)
\* reviewCards, up to the tag prompt: the due cards are fetched
StartReview ==
    LET due == getDueCards(TRUE, now) IN
    /\ pc = "menu"
    /\ last' = Call("getDueCards", 0, 0, {}, TRUE, "", due)
    /\ IF Len(due) = 0
       THEN UNCHANGED <<pc, dueCards>>
       ELSE pc' = "filter" /\ dueCards' = due
    /\ UNCHANGED <<file, now, nextId, cardsToReview, idx>>
    /\ UNCHANGED ai

\* reviewCards, from the tag prompt to the first card
ChooseFilter(filterByTags, selectedTags) ==
    LET queue == IF filterByTags /\ selectedTags # {}
                 THEN SelectSeq(getCardsByTags(selectedTags),
                                LAMBDA card : isDue(card, now))
                 ELSE dueCards
    IN
    /\ pc = "filter"
    /\ last' = IF filterByTags /\ selectedTags # {}
               THEN Call("getCardsByTags", 0, 0, selectedTags, FALSE, "",
                         getCardsByTags(selectedTags))
               ELSE NoCall
    /\ dueCards' = <<>>
    /\ IF Len(queue) = 0
       THEN pc' = "menu" /\ cardsToReview' = <<>> /\ idx' = 0
       ELSE pc' = "present" /\ cardsToReview' = queue /\ idx' = 1
    /\ UNCHANGED <<file, now, nextId>>
    /\ UNCHANGED ai

\* reviewSingleCard, one turn of the while loop: the card is shown, rated and
\* reviewed; Object.assign(card, result.card) when it needs a re-review
Rate(rating) ==
    LET card == cardsToReview[idx] IN
    /\ pc = "present"
    /\ \E out \in reviewCard(card.id, rating, now) :
        /\ file' = out.file
        /\ last' = Call("reviewCard", card.id, rating, {}, out.needsReReview,
                        out.err, out.card)
        /\ IF out.err # ""
           THEN pc' = "crashed" /\ UNCHANGED cardsToReview
           ELSE IF out.needsReReview
           THEN /\ pc' = "present"
                /\ cardsToReview' = [cardsToReview EXCEPT ![idx] = Val(out.card)]
           ELSE pc' = "notes" /\ UNCHANGED cardsToReview
    /\ UNCHANGED <<now, nextId, dueCards, idx>>
    /\ UNCHANGED ai

\* (mutant) the notes are put on the card object of the session, and that
\* object is written over the stored card
Notes_sessionCopy(manageNotes, notes) ==
    LET card == cardsToReview[idx]
        cardIndex == findIndex(load, card.id)
        c == [card EXCEPT !.notes = Some(notes)]
    IN
    /\ pc = "notes"
    /\ IF manageNotes /\ cardIndex # 0
       THEN /\ file' = written([load EXCEPT ![cardIndex] = c])
            /\ last' = Call("updateCardNotes", card.id, 0, {}, FALSE, "", Some(c))
       ELSE /\ UNCHANGED file
            /\ last' = NoCall
    /\ IF idx < Len(cardsToReview)
       THEN pc' = "present" /\ idx' = idx + 1 /\ UNCHANGED cardsToReview
       ELSE pc' = "menu" /\ cardsToReview' = <<>> /\ idx' = 0
    /\ UNCHANGED <<now, nextId, dueCards>>
    /\ UNCHANGED ai

\* reviewSingleCard after the loop (the notes prompt, addNotesToCard), then the
\* next turn of the for..of loop of reviewCards
Notes(manageNotes, notes) ==
    LET card == cardsToReview[idx]
        out == updateCardNotes(card.id, notes)
    IN
    /\ pc = "notes"
    /\ IF manageNotes
       THEN /\ file' = out.file
            /\ last' = Call("updateCardNotes", card.id, 0, {}, FALSE, out.err, out.card)
       ELSE /\ UNCHANGED file
            /\ last' = NoCall
    /\ IF manageNotes /\ out.err # ""
       THEN pc' = "crashed" /\ UNCHANGED <<cardsToReview, idx>>
       ELSE IF idx < Len(cardsToReview)
       THEN pc' = "present" /\ idx' = idx + 1 /\ UNCHANGED cardsToReview
       ELSE pc' = "menu" /\ cardsToReview' = <<>> /\ idx' = 0
    /\ UNCHANGED <<now, nextId, dueCards>>
    /\ UNCHANGED ai

\* The user ends the process at a prompt of a review session (Ctrl-C) and
\* starts the CLI again: the locals of the session are gone, the file stays.
Quit ==
    /\ pc \in {"filter", "present", "notes"}
    /\ pc' = "menu"
    /\ dueCards' = <<>>
    /\ cardsToReview' = <<>>
    /\ idx' = 0
    /\ last' = NoCall
    /\ UNCHANGED <<file, now, nextId>>
    /\ UNCHANGED ai

(***************************************************************************)
(* AIService: a call of generateCardsFromText, request by request.         *)
(***************************************************************************)
\* generateCardsFromText(text), up to the first request (lines 110-127, 194)
GenerateCardsFromText(text) ==
    /\ ai.pc # "request"
    /\ ai' = IF ~validateInputText(text)
             THEN [NoGeneration EXCEPT
                    !.pc = "returned",
                    !.result = IF text.length = 0 \/ text.trimmed = 0
                               THEN "Error: Please provide some text."
                               ELSE "Error: The provided text is too long."]
             ELSE [NoGeneration EXCEPT !.pc = "request", !.requests = 1]
    /\ UNCHANGED <<file, now, nextId, pc, dueCards, cardsToReview, idx, last>>

\* makeRequest: the request in flight is settled; what makeRequest throws is
\* caught by generateCardsFromText and returned as a message (lines 193-214)
MakeRequest(outcome) ==
    /\ ai.pc = "request"
    /\ ai' = IF outcome.ok
             THEN [ai EXCEPT !.pc = "returned",
                             !.result = formatFlashcards(outcome.text)]
             ELSE LET a == afterError(ai, outcome)
                  IN  IF a.pc = "threw"
                      THEN [a EXCEPT !.pc = "returned",
                                     !.result = errorMessage(outcome)]
                      ELSE a
    /\ UNCHANGED <<file, now, nextId, pc, dueCards, cardsToReview, idx, last>>

(***************************************************************************)
(* Specifications.  Each one runs the same program; they differ in the     *)
(* callers that are active and in the bounds put on them.                  *)
(***************************************************************************)
\* how many cards saveRawCards(raw) creates
Created(raw) == Len(parseCards(raw, now))

\* the review update: cards are created and reviewed with every rating, and the
\* statistics are read, all within one tick of the clock
NextReview ==
    \/ \E raw \in RawTexts :
            nextId + Created(raw) <= ReviewMaxCards /\ SaveRawCards(raw)
    \/ \E cardId \in CardIds, rating \in Ratings :
            TotalReviews < ReviewMaxReviews /\ ReviewCard(cardId, rating)
    \/ GetCardStats

SpecReview == Init /\ [][NextReview]_vars

\* the due queue: cards are created, reviewed and selected as time passes
NextDue ==
    \/ now < DueMaxTime /\ Tick
    \/ \E raw \in RawTexts :
            nextId + Created(raw) <= DueMaxCards /\ SaveRawCards(raw)
    \/ \E cardId \in CardIds, rating \in TierRatings :
            TotalReviews < DueMaxReviews /\ ReviewCard(cardId, rating)
    \/ \E includeFailed \in BOOLEAN : GetDueCards(includeFailed)

SpecDue == Init /\ [][NextDue]_vars

\* the tag filter: cards are created, tagged and selected by tag
NextTags ==
    \/ \E raw \in RawTexts :
            nextId + Created(raw) <= TagsMaxCards /\ SaveRawCards(raw)
    \/ \E cardId \in CardIds, tags \in SUBSET TagNames : UpdateCardTags(cardId, tags)
    \/ \E tags \in SUBSET TagNames : GetCardsByTags(tags)

SpecTags == Init /\ [][NextTags]_vars

\* the store: every handler that writes the file, with and without the process
\* being killed inside the write, and the handlers that read it
StoreRatings == {Num(2), Num(5)}
StoreTags == {{}, {"t1"}}

NextStore ==
    \/ \E raw \in RawTexts :
            nextId + Created(raw) <= StoreMaxCards /\ SaveRawCards(raw)
    \/ \E cardId \in CardIds, rating \in StoreRatings :
            TotalReviews < StoreMaxReviews /\ ReviewCard(cardId, rating)
    \/ \E cardId \in CardIds, tags \in StoreTags : UpdateCardTags(cardId, tags)
    \/ \E cardId \in CardIds, notes \in NoteTexts : UpdateCardNotes(cardId, notes)
    \/ Load
    \/ \E includeFailed \in BOOLEAN : GetDueCards(includeFailed)
    \/ \E tags \in StoreTags : GetCardsByTags(tags)
    \/ GetCardStats
    \/ \E raw \in RawTexts :
            nextId + Created(raw) <= StoreMaxCards /\ SaveRawCardsKilled(raw)
    \/ \E cardId \in CardIds, rating \in StoreRatings :
            TotalReviews < StoreMaxReviews /\ ReviewCardKilled(cardId, rating)
    \/ \E cardId \in CardIds, tags \in StoreTags : UpdateCardTagsKilled(cardId, tags)
    \/ \E cardId \in CardIds, notes \in NoteTexts :
            UpdateCardNotesKilled(cardId, notes)

SpecStore == Init /\ [][NextStore]_vars

\* the growth of the interval: cards are created and rated 5, again and again
NextFives ==
    \/ \E raw \in RawTexts :
            nextId + Created(raw) <= FivesMaxCards /\ SaveRawCards(raw)
    \/ \E cardId \in CardIds :
            TotalReviews < FivesMaxReviews /\ ReviewCard(cardId, Num(5))

SpecFives == Init /\ [][NextFives]_vars

\* sessions with and without the tag filter: cards are created and tagged,
\* sessions are started, cards are rated and annotated and sessions are left,
\* as time passes
FilterRatings == {Num(2), Num(4)}
FilterTags == {{}, {"t1"}}

NextFilter ==
    \/ now < FilterMaxTime /\ Tick
    \/ \E raw \in RawTexts :
            nextId + Created(raw) <= FilterMaxCards /\ SaveRawCards(raw)
    \/ \E cardId \in CardIds, tags \in FilterTags : UpdateCardTags(cardId, tags)
    \/ StartReview
    \/ \E filterByTags \in BOOLEAN, selectedTags \in FilterTags :
            ChooseFilter(filterByTags, selectedTags)
    \/ \E rating \in FilterRatings :
            TotalReviews < FilterMaxReviews /\ Rate(rating)
    \/ \E manageNotes \in BOOLEAN, notes \in NoteTexts : Notes(manageNotes, notes)
    \/ Quit

SpecFilter == Init /\ [][NextFilter]_vars

\* the window of upcoming reviews: a card is reviewed with success until its
\* interval is about thirty days, and the statistics are read as time passes
UpcomingRatings == {Num(3), Num(4), Num(5)}

NextUpcoming ==
    \/ now < UpcomingMaxTime /\ Tick
    \/ \E raw \in RawTexts :
            nextId + Created(raw) <= UpcomingMaxCards /\ SaveRawCards(raw)
    \/ \E cardId \in CardIds, rating \in UpcomingRatings :
            TotalReviews < UpcomingMaxReviews /\ ReviewCard(cardId, rating)
    \/ GetCardStats

SpecUpcoming == Init /\ [][NextUpcoming]_vars

\* the generation of cards: texts are passed to generateCardsFromText and each
\* request is answered or times out
Settles == \E outcome \in Outcomes : MakeRequest(outcome)

NextAI ==
    \/ \E text \in Texts : GenerateCardsFromText(text)
    \/ Settles

\* Every request is settled: Promise.race ends it after requestTimeout at the
\* latest, and the delay before a retry is one second.
SpecAI == Init /\ [][NextAI]_vars /\ WF_vars(Settles)

\* the statistics: cards are created and reviewed as time passes, and the three
\* handlers that only read are called
StatsRatings == {Num(2), Num(5)}

NextStats ==
    \/ now < StatsMaxTime /\ Tick
    \/ \E raw \in RawTexts :
            nextId + Created(raw) <= StatsMaxCards /\ SaveRawCards(raw)
    \/ \E cardId \in CardIds, rating \in StatsRatings :
            TotalReviews < StatsMaxReviews /\ ReviewCard(cardId, rating)
    \/ GetCardStats
    \/ \E includeFailed \in BOOLEAN : GetDueCards(includeFailed)
    \/ \E tags \in SUBSET TagNames : GetCardsByTags(tags)

SpecStats == Init /\ [][NextStats]_vars

\* The review session of the CLI, within one tick of the clock.  A session starts only while the bound leaves
\* room for one rating of each card of its queue, and a rating below 4 is given
\* only while it leaves that room to the cards still to come: the bound never
\* stops a session half way.
Room == SessionMaxReviews - TotalReviews

StartSession(filterByTags, selectedTags) ==
    /\ ChooseFilter(filterByTags, selectedTags)
    /\ Len(cardsToReview') <= Room

RateBelow4 ==
    \E rating \in {r \in CliRatings : r < Num(4)} :
        /\ Len(cardsToReview) - idx + 1 < Room
        /\ Rate(rating)

RateAtLeast4 ==
    \E rating \in {r \in CliRatings : r >= Num(4)} : Room > 0 /\ Rate(rating)

AnswerNotes ==
    \E manageNotes \in BOOLEAN, notes \in NoteTexts : Notes(manageNotes, notes)

NextSession ==
    \/ \E raw \in RawTexts :
            nextId + Created(raw) <= SessionMaxCards /\ SaveRawCards(raw)
    \/ StartReview
    \/ \E filterByTags \in BOOLEAN, selectedTags \in SUBSET TagNames :
            StartSession(filterByTags, selectedTags)
    \/ RateBelow4
    \/ RateAtLeast4
    \/ AnswerNotes

\* The user answers the prompts of a session, and every card is in the end given
\* a rating of 4 or 5.
SpecSession ==
    /\ Init
    /\ [][NextSession]_vars
    /\ WF_vars(RateAtLeast4)
    /\ WF_vars(AnswerNotes)

(***************************************************************************)
(* Properties of the review update.                                        *)
(***************************************************************************)
\* the stored card with this id
TheCard(cards, cardId) == cards[findIndex(cards, cardId)]

\* the step is a call of reviewCard that found its card
Reviews == last'.op = "reviewCard" /\ last'.err = ""
OldCard == TheCard(load, last'.cardId)
NewCard == TheCard(load', last'.cardId)

\* C1: reviewCard called with a rating that is not an integer in 0..5 is rejected:
\* it throws, no stored card changes and nothing is appended to a history.
C1_InvalidRatingRejected ==
    [][(last'.op = "reviewCard" /\ last'.rating \notin CliRatings)
            => (last'.err # "" /\ file' = file)]_vars

\* C2: every stored card's ease factor is at least 1.3.
C2_EFAtLeastFloor ==
    \A i \in 1..Len(load) : load[i].EF >= 1300

\* the floor acted: a card rated 0 twice from the defaults (2.5 - 0.8 - 0.8 < 1.3)
C2_Witness ==
    /\ last.op = "reviewCard"
    /\ \E i \in 1..Len(load) :
        /\ load[i].performance = <<Num(0), Num(0)>>
        /\ load[i].EF = 1300

\* C3: a review with rating >= 3 adds one to repetition and sets the interval to 1
\* when repetition was 0, to 6 when it was 1, and otherwise to the previous interval
\* times the ease factor this review has just set, rounded to a nearest integer.
C3_SuccessInterval ==
    [][(Reviews /\ last'.rating >= Num(3)) =>
        /\ NewCard.repetition = OldCard.repetition + 1
        /\ IF OldCard.repetition = 0 THEN NewCard.interval = 1
           ELSE IF OldCard.repetition = 1 THEN NewCard.interval = 6
           ELSE LET d == NewCard.interval * Scale - OldCard.interval * NewCard.EF
                IN  2 * d <= Scale /\ 2 * d >= 0 - Scale]_vars

\* the third success in a row: 6 days times the updated 2.8 is 17 days (the
\* ease factor before the review, 2.7, would give 16)
C3_Witness ==
    /\ last.op = "reviewCard"
    /\ last.err = ""
    /\ LET c == TheCard(load, last.cardId) IN
        /\ c.performance = <<Num(5), Num(5), Num(5)>>
        /\ c.repetition = 3
        /\ c.EF = 2800
        /\ c.interval = 17

\* what ratings 0, 1 and 2 take from the ease factor
Penalty(rating) ==
    IF rating = Num(0) THEN 800 ELSE IF rating = Num(1) THEN 540 ELSE 320

C5_DueDateDerived ==
    /\ \A i \in 1..Len(load) :
        IF IsDefined(load[i].lastReview)
        THEN parseDate(load[i].dueDate)
                = parseDate(Val(load[i].lastReview)) + load[i].interval * DayTicks
        ELSE load[i].interval = 0 /\ parseDate(load[i].dueDate) <= now
    /\ last.op = "saveRawCards" =>
        \A k \in 1..Len(last.result) :
            /\ parseDate(last.result[k].dueDate) = now
            /\ TheCard(load, last.result[k].id) = last.result[k]

\* a card reviewed twice with success, the second time after the clock moved, is
\* due six days after that review, beside a card never reviewed
C5_Witness ==
    /\ last.op = "reviewCard"
    /\ \E i \in 1..Len(load) :
        /\ load[i].interval = 6
        /\ Val(load[i].lastReview) = toISOString(now)
        /\ now > 0
        /\ parseDate(load[i].dueDate) = now + 6 * DayTicks
    /\ \E i \in 1..Len(load) : ~IsDefined(load[i].lastReview)

(***************************************************************************)
(* Properties of the review session.                                       *)
(***************************************************************************)
\* the ids of the cards of a queue, in order
Ids(queue) == [i \in 1..Len(queue) |-> queue[i].id]

\* the step is reviewSingleCard rating the card it presents
Rates == pc = "present" /\ Reviews

\* C6: while a card is presented the queue and the position in it stay as they
\* are; a rating below 4 leaves the session presenting the same card, now with the
\* state the review has just stored; the session leaves the card only by a rating
\* of at least 4 of that card.
C6_ReReviewSameCard ==
    [][/\ pc = "present" => (idx' = idx /\ Ids(cardsToReview') = Ids(cardsToReview))
       /\ Rates => last'.cardId = cardsToReview[idx].id
       /\ (Rates /\ last'.rating < Num(4)) =>
            /\ pc' = "present"
            /\ cardsToReview'[idx] = NewCard
            /\ NewCard.lastRating = Some(last'.rating)
       /\ (pc = "present" /\ pc' # "present") =>
            (Rates /\ last'.rating >= Num(4) /\ pc' = "notes")]_vars

\* the first card of a queue of two was rated 3 and is presented again
C6_Witness ==
    /\ pc = "present"
    /\ last.op = "reviewCard"
    /\ last.rating = Num(3)
    /\ Len(cardsToReview) = 2
    /\ idx = 1
    /\ cardsToReview[1].performance = <<Num(3)>>
    /\ cardsToReview[2].performance = <<>>

\* C7: a rating of at least 4 ends the loop on a card and a rating below 4 never
\* does; the session goes through its queue one card at a time and completes only
\* after the last one; and when every card is in the end rated at least 4, a
\* session that presents a card completes.
C7_SessionCompletes ==
    /\ [][(Rates /\ last'.rating >= Num(4)) => pc' = "notes"]_vars
    /\ [][(Rates /\ last'.rating < Num(4)) => (pc' = "present" /\ idx' = idx)]_vars
    /\ [][idx' # idx =>
            \/ idx' = idx + 1 /\ pc' = "present"
            \/ idx' = 0 /\ idx = Len(cardsToReview) /\ pc = "notes" /\ pc' = "menu"]_vars
    /\ (pc = "present") ~> (pc = "menu")

\* a session of two cards has completed: the first card was rated 3, then 4, the
\* second 5
C7_Witness ==
    /\ pc = "menu"
    /\ Len(load) = 2
    /\ load[1].performance = <<Num(3), Num(4)>>
    /\ load[2].performance = <<Num(5)>>

(***************************************************************************)
(* Properties of the selections.                                           *)
(***************************************************************************)
\* where the store holds the card with this id
Pos(cardId) == findIndex(load, cardId)

\* the cards of r are stored cards, as stored, in store order, none twice
InStoreOrder(r) ==
    /\ \A k \in 1..Len(r) : Pos(r[k].id) # 0 /\ r[k] = TheCard(load, r[k].id)
    /\ \A j, k \in 1..Len(r) : j < k => Pos(r[j].id) < Pos(r[k].id)

\* the tier of the due queue a card belongs to (0: none)
Tier(card) ==
    IF IsDefined(card.lastRating) /\ Val(card.lastRating) <= Num(2) THEN 1
    ELSE IF IsDefined(card.lastRating) /\ Val(card.lastRating) = Num(3) THEN 2
    ELSE IF ~IsDefined(card.lastRating) \/ Val(card.lastRating) > Num(3) THEN 3
    ELSE 0

\* C8: getDueCards(true) returns the due cards with lastRating <= 2, then those
\* with lastRating 3, then those with no lastRating or one above 3, each tier in
\* store order and each such card once.
C8_ThreeTiers ==
    (last.op = "getDueCards" /\ last.flag) =>
        LET r == last.result IN
        /\ \A k \in 1..Len(r) :
            /\ Pos(r[k].id) # 0
            /\ r[k] = TheCard(load, r[k].id)
            /\ parseDate(r[k].dueDate) <= now
            /\ Tier(r[k]) \in 1..3
        /\ \A i \in 1..Len(load) :
            (parseDate(load[i].dueDate) <= now /\ Tier(load[i]) \in 1..3)
                => Cardinality({k \in 1..Len(r) : r[k].id = load[i].id}) = 1
        /\ \A j, k \in 1..Len(r) : j < k =>
            \/ Tier(r[j]) < Tier(r[k])
            \/ Tier(r[j]) = Tier(r[k]) /\ Pos(r[j].id) < Pos(r[k].id)

\* two due cards come out against the store order: the second of the store is in
\* an earlier tier than the first
C8_Witness ==
    /\ last.op = "getDueCards"
    /\ last.flag
    /\ Len(last.result) = 2
    /\ Tier(last.result[1]) < Tier(last.result[2])
    /\ Pos(last.result[1].id) > Pos(last.result[2].id)

\* C9: getDueCards(false) returns exactly the stored cards with dueDate <= now, in
\* store order.
C9_DueInStoreOrder ==
    (last.op = "getDueCards" /\ ~last.flag) =>
        /\ InStoreOrder(last.result)
        /\ \A k \in 1..Len(last.result) : parseDate(last.result[k].dueDate) <= now
        /\ \A i \in 1..Len(load) :
            parseDate(load[i].dueDate) <= now
                => \E k \in 1..Len(last.result) : last.result[k].id = load[i].id

\* a card due exactly now is returned, a card due later is not
C9_Witness ==
    /\ last.op = "getDueCards"
    /\ ~last.flag
    /\ now > 0
    /\ \E k \in 1..Len(last.result) : parseDate(last.result[k].dueDate) = now
    /\ \E i \in 1..Len(load) :
        /\ parseDate(load[i].dueDate) > now
        /\ \A k \in 1..Len(last.result) : last.result[k].id # load[i].id

\* C10: getCardsByTags with no tags returns the stored cards as they are; with
\* tags it returns, in store order, exactly the cards that carry at least one of
\* them, so never a card without tags.
C10_TagFilter ==
    last.op = "getCardsByTags" =>
        IF last.tags = {} THEN last.result = load
        ELSE
            /\ InStoreOrder(last.result)
            /\ \A k \in 1..Len(last.result) :
                    last.result[k].tags \cap last.tags # {}
            /\ \A i \in 1..Len(load) :
                load[i].tags \cap last.tags # {}
                    => \E k \in 1..Len(last.result) : last.result[k].id = load[i].id

\* asked for t1 or t2, the untagged first card is left out and the cards carrying
\* one of the two tags are returned
C10_Witness ==
    /\ last.op = "getCardsByTags"
    /\ last.tags = {"t1", "t2"}
    /\ Len(load) = 3
    /\ load[1].tags = {}
    /\ load[2].tags = {"t2"}
    /\ load[3].tags = {"t1"}
    /\ last.result = <<load[2], load[3]>>

(***************************************************************************)
(* Properties of the store.                                                *)
(***************************************************************************)
\* C11: load returns the empty sequence when the file does not exist, but a file
\* that is present and is not JSON is a failure shown to the caller: every call
\* made on a corrupt file throws and leaves the file as it is, so no write puts
\* a collection in its place that omits the cards that were stored.
C11_CorruptStoreFails ==
    [][/\ (file.state = "absent" /\ last'.op = "load")
            => (last'.err = "" /\ last'.result = <<>>)
       /\ (file.state = "corrupt" /\ last'.op # "")
            => (last'.err \notin {"", "killed"} /\ file' = file)]_vars

\* C20: every write replaces the stored collection atomically: when a write is
\* interrupted the file holds the complete collection of before or the complete
\* new one, never a part of one and never text that cannot be read.
C20_WritesAtomic ==
    [][last'.op # "" =>
            \/ file' = file
            \/ /\ file'.state = "ok"
               /\ last'.err = ""]_vars

\* C12: reviewCard, updateCardTags and updateCardNotes called with an id that no
\* loaded card has throw a not-found error, write nothing and leave the file as
\* it is.
C12_AbsentIdNotFound ==
    [][(/\ last'.op \in {"reviewCard", "updateCardTags", "updateCardNotes"}
        /\ findIndex(load, last'.cardId) = 0)
            => (/\ last'.err \in {"Card not found", "Card with ID not found"}
                /\ file' = file)]_vars

\* updateCardNotes with an id that was never handed out has thrown, and the one
\* stored card is there
C12_Witness ==
    /\ last.op = "updateCardNotes"
    /\ last.err = "Card with ID not found"
    /\ file.state = "ok"
    /\ Len(load) = 1
    /\ last.cardId # load[1].id

\* C13: the performance history of a card is append-only.  Over every step, of
\* whatever operation, a loaded card is still there after the step (unless the
\* process was killed in the write) and keeps its history as it was, except
\* that a review of that card appends its rating, and only that, at the end.
C13_HistoryAppendOnly ==
    [][\A i \in 1..Len(load) :
        /\ last'.err # "killed" => \E j \in 1..Len(load') : load[i].id = load'[j].id
        /\ \A j \in 1..Len(load') :
            load[i].id = load'[j].id =>
                IF Reviews /\ last'.cardId = load[i].id
                THEN load'[j].performance = Append(load[i].performance, last'.rating)
                ELSE load'[j].performance = load[i].performance]_vars

\* a card that was tagged and annotated has the ratings of its two reviews, in
\* the order they were given
C13_Witness ==
    /\ last.op = "reviewCard"
    /\ Len(load) = 1
    /\ load[1].performance = <<Num(2), Num(5)>>
    /\ load[1].tags = {"t1"}
    /\ IsDefined(load[1].notes)

(***************************************************************************)
(* Properties of a review within a session.                                *)
(***************************************************************************)
\* C14: a review of a card, a re-review included, changes that card only: the
\* store keeps its length and its order of ids, every other stored card keeps
\* every field, and the other entries of the session's queue are as they were,
\* in the same places.
C14_ReviewTouchesOneCard ==
    [][Rates =>
        /\ Ids(load') = Ids(load)
        /\ \A i \in 1..Len(load) :
                load[i].id # last'.cardId => load'[i] = load[i]
        /\ idx' = idx
        /\ Len(cardsToReview') = Len(cardsToReview)
        /\ \A n \in 1..Len(cardsToReview) :
                n # idx => cardsToReview'[n] = cardsToReview[n]]_vars

\* the first of two queued cards has been reviewed twice; the second is in the
\* store and in the queue as it was created
C14_Witness ==
    /\ last.op = "reviewCard"
    /\ Len(load) = 2
    /\ Len(cardsToReview) = 2
    /\ idx = 1
    /\ Len(load[1].performance) = 2
    /\ load[2].performance = <<>>
    /\ ~IsDefined(load[2].lastReview)
    /\ cardsToReview[2] = load[2]

\* the card as parseCards made it, with the tags and notes it has now
Fresh(card) ==
    [newCard(card.id, [q |-> card.question, a |-> card.answer], now)
        EXCEPT !.tags = card.tags, !.notes = card.notes]

\* the cards that reviewing `card` with these ratings, one after the other, can
\* produce
RECURSIVE Replayed(_, _)
Replayed(card, ratings) ==
    IF ratings = <<>> THEN {card}
    ELSE UNION {reviewed(c, ratings[Len(ratings)], now)
                    : c \in Replayed(card, SubSeq(ratings, 1, Len(ratings) - 1))}

\* C15: every turn of the re-review loop is a full, saved review.  The card a
\* rating step stores is the review update applied to the card the session holds
\* (which is the stored card, updated by every earlier turn), the session takes
\* that card over when it shows the card again, and so the stored card is what
\* the review update gives when applied once for each rating given, in order.
C15_EveryRatingPersisted ==
    [][Rates =>
        /\ file'.state = "ok"
        /\ cardsToReview[idx] = OldCard
        /\ NewCard \in reviewed(cardsToReview[idx], last'.rating, now)
        /\ NewCard = Val(last'.result)
        /\ pc' = "present" => cardsToReview'[idx] = NewCard
        /\ NewCard \in Replayed(Fresh(NewCard), NewCard.performance)]_vars

\* a card was rated 1, 3 and 5 in one stay: the stored card has the three
\* ratings, the ease factor 2.5 - 0.54 - 0.14 + 0.1 and the repetition count 2
C15_Witness ==
    /\ pc = "notes"
    /\ last.op = "reviewCard"
    /\ Len(load) = 1
    /\ load[1].performance = <<Num(1), Num(3), Num(5)>>
    /\ load[1].EF = 1920
    /\ load[1].repetition = 2
    /\ load[1].interval = 6

\* the fields of a stored card
CardFields ==
    {"id", "question", "answer", "EF", "interval", "repetition", "dueDate",
     "tags", "notes", "lastReview", "performance", "lastRating"}

\* C16: the flag reviewCard returns is (rating < 4): true for 0..3, false for 4
\* and 5.  It is returned beside the card, which is the stored card; neither the
\* returned nor any stored card has a field for it.
C16_FlagIsRatingBelow4 ==
    /\ \A i \in 1..Len(load) : DOMAIN load[i] = CardFields
    /\ (last.op = "reviewCard" /\ last.err = "") =>
        /\ last.flag = (last.rating < Num(4))
        /\ last.rating \in {Num(r) : r \in 0..3} => last.flag
        /\ last.rating \in {Num(4), Num(5)} => ~last.flag
        /\ Val(last.result) = TheCard(load, last.cardId)

\* a rating of 3 counts as a success (repetition 1, interval 1) and still asks
\* for a re-review
C16_Witness ==
    /\ last.op = "reviewCard"
    /\ last.rating = Num(3)
    /\ last.flag
    /\ TheCard(load, last.cardId).repetition = 1
    /\ TheCard(load, last.cardId).interval = 1

(***************************************************************************)
(* Properties of the statistics and of the handlers that only read.        *)
(***************************************************************************)
\* C17: on an empty card set getCardStats returns zero cards, zero due cards,
\* the average ease factor 0, six zero counts and two empty maps, getDueCards
\* and getCardsByTags return the empty list, and none of them throws.  On a set
\* that is not empty totalCards is the number of cards, dueCards the number of
\* cards whose due date is not after now, and avgEaseFactor the mean of the
\* ease factors (to the unit 1/Scale).
C17_StatsCounts ==
    /\ last.op \in {"getCardStats", "getDueCards", "getCardsByTags"}
            => last.err = ""
    /\ (last.op \in {"getDueCards", "getCardsByTags"} /\ Len(load) = 0)
            => last.result = <<>>
    /\ last.op = "getCardStats" =>
        LET stats == Val(last.stats)
            n == Len(load)
        IN  IF n = 0
            THEN /\ stats.totalCards = 0
                 /\ stats.dueCards = 0
                 /\ stats.avgEaseFactor = 0
                 /\ stats.performanceDistribution = <<0, 0, 0, 0, 0, 0>>
                 /\ DOMAIN stats.reviewsByDay = {}
                 /\ DOMAIN stats.upcomingReviews = {}
            ELSE /\ stats.totalCards = n
                 /\ stats.dueCards =
                        Cardinality({i \in 1..n : parseDate(load[i].dueDate) <= now})
                 /\ n * stats.avgEaseFactor <= SumEF(load, 1)
                 /\ SumEF(load, 1) < n * (stats.avgEaseFactor + 1)

\* two cards, one reviewed with 5 and due tomorrow, one new and due: the
\* statistics count 2 cards, 1 due card and the mean 2.55 of 2.6 and 2.5
C17_Witness ==
    /\ last.op = "getCardStats"
    /\ Len(load) = 2
    /\ load[1].EF = 2600
    /\ load[2].EF = 2500
    /\ Val(last.stats).totalCards = 2
    /\ Val(last.stats).dueCards = 1
    /\ Val(last.stats).avgEaseFactor = 2550

\* C18: getCardStats, getDueCards and getCardsByTags only read: the file, and so
\* every field of every stored card and the order of the cards, is after the
\* call what it was before.
C18_ReadersReadOnly ==
    [][last'.op \in {"getCardStats", "getDueCards", "getCardsByTags"}
            => (file' = file /\ load' = load)]_vars

\* getDueCards(true) returned the failed second card before the new first
\* card, and the store has the two in the order they were created
C18_Witness ==
    /\ last.op = "getDueCards"
    /\ last.flag
    /\ Len(load) = 2
    /\ load[1].id = 1
    /\ load[2].id = 2
    /\ load[2].lastRating = Some(Num(2))
    /\ last.result = <<load[2], load[1]>>

(***************************************************************************)
(* Properties of the interval over many reviews.                           *)
(***************************************************************************)
\* C19: a card that starts from the defaults and is always rated 5 gets the
\* interval 1 at its first review and 6 at its second, and at every review from
\* the third on an interval greater than the one it had.
C19_IntervalGrows ==
    [][(Reviews /\ \A n \in 1..Len(NewCard.performance) :
                        NewCard.performance[n] = Num(5)) =>
        LET k == Len(NewCard.performance) IN
        /\ k = 1 => NewCard.interval = 1
        /\ k = 2 => NewCard.interval = 6
        /\ k >= 3 => NewCard.interval > OldCard.interval]_vars

\* the fifth rating of 5: the intervals were 1, 6, 17 and 49, the ease factor
\* is 3.0 and the interval is 147
C19_Witness ==
    /\ last.op = "reviewCard"
    /\ Len(load) >= 1
    /\ load[1].performance = <<Num(5), Num(5), Num(5), Num(5), Num(5)>>
    /\ load[1].EF = 3000
    /\ load[1].repetition = 5
    /\ load[1].interval = 147

(***************************************************************************)
(* Properties of the ease factor.                                          *)
(***************************************************************************)
\* what a rating of 0..5 adds to the ease factor before the floor is applied
EFChange(rating) ==
    CASE rating = Num(5) -> 100
      [] rating = Num(4) -> 0
      [] rating = Num(3) -> -140
      [] rating = Num(2) -> -320
      [] rating = Num(1) -> -540
      [] rating = Num(0) -> -800

\* C21: every review with a rating of 0..5, a success or a failure, sets EF to
\* max(1.3, EF + change), the change being +0.10, 0, -0.14, -0.32, -0.54, -0.80
\* for the ratings 5, 4, 3, 2, 1, 0.  So a rating of 5 raises EF, a rating of 4
\* leaves it as it is, and a rating of 0..3 never raises it and lowers it
\* whenever it is above the floor.
C21_EFUpdate ==
    [][(Reviews /\ last'.rating \in CliRatings) =>
        /\ NewCard.EF = Max(1300, OldCard.EF + EFChange(last'.rating))
        /\ last'.rating = Num(5) => NewCard.EF > OldCard.EF
        /\ last'.rating = Num(4) => NewCard.EF = OldCard.EF
        /\ last'.rating <= Num(3) =>
            /\ NewCard.EF <= OldCard.EF
            /\ OldCard.EF > 1300 => NewCard.EF < OldCard.EF]_vars

\* rated 5, then 3, then 1: the ease factor is 2.5 + 0.1 - 0.14 - 0.54
C21_Witness ==
    /\ last.op = "reviewCard"
    /\ Len(load) = 1
    /\ load[1].performance = <<Num(5), Num(3), Num(1)>>
    /\ load[1].EF = 1920

(***************************************************************************)
(* Properties of the queue of a session.                                   *)
(***************************************************************************)
\* C22: the queue of a session filtered by tags is the prioritized due queue of
\* getDueCards (what the session without filter reviews) restricted to the
\* cards that carry one of the selected tags, so two due cards come in the
\* same order in both kinds of session.
C22_FilteredQueueIsRestriction ==
    [][(pc = "filter" /\ last'.op = "getCardsByTags") =>
        cardsToReview' =
            SelectSeq(dueCards, LAMBDA card : card.tags \cap last'.tags # {})]_vars

\* the entries of every card's performance history, as <<place of the card,
\* place in its history>>
Entries ==
    UNION {{<<i, j>> : j \in 1..Len(load[i].performance)} : i \in 1..Len(load)}

\* C23: performanceDistribution counts every entry of every history in the
\* bucket of its rating: bucket r (0..5) is the number of entries equal to r,
\* and the six buckets add up to the number of reviews recorded.
C23_DistributionCountsAll ==
    last.op = "getCardStats" =>
        LET dist == Val(last.stats).performanceDistribution IN
        /\ \A r \in 0..5 :
            dist[r + 1] = Cardinality({p \in Entries :
                                load[p[1]].performance[p[2]] = Num(r)})
        /\ dist[1] + dist[2] + dist[3] + dist[4] + dist[5] + dist[6]
                = Cardinality(Entries)

\* the sum of the counts of a Record<string, number>
RECURSIVE SumCounts(_, _)
SumCounts(counts, days) ==
    IF days = {} THEN 0
    ELSE LET d == CHOOSE x \in days : TRUE
         IN  counts[d] + SumCounts(counts, days \ {d})

\* the stored cards last reviewed on calendar day d
ReviewedOn(d) ==
    {i \in 1..Len(load) : /\ IsDefined(load[i].lastReview)
                          /\ Val(load[i].lastReview).date = d}

UpcomingOn(d) ==
    {i \in 1..Len(load) : /\ parseDate(load[i].dueDate) >= now
                          /\ parseDate(load[i].dueDate) <= now + 30 * DayTicks
                          /\ load[i].dueDate.date = d}

\* C25: upcomingReviews counts, per calendar day, exactly the cards whose due
\* date is in the window from now to now + 30 days, both ends included: a card
\* due at now or at now + 30 days is counted, a card due before now or after
\* now + 30 days is not.
C25_UpcomingWindow ==
    last.op = "getCardStats" =>
        LET counts == Val(last.stats).upcomingReviews IN
        /\ \A d \in DOMAIN counts :
            counts[d] = Cardinality(UpcomingOn(d)) /\ UpcomingOn(d) # {}
        /\ \A i \in 1..Len(load) :
            (/\ parseDate(load[i].dueDate) >= now
             /\ parseDate(load[i].dueDate) <= now + 30 * DayTicks)
                => load[i].dueDate.date \in DOMAIN counts

\* a card reviewed a day ago got the interval 31: it is due exactly thirty days
\* from now and is counted, on day 31
C25_Witness ==
    /\ last.op = "getCardStats"
    /\ Len(load) = 1
    /\ load[1].interval = 31
    /\ now = DayTicks
    /\ parseDate(load[1].dueDate) = now + 30 * DayTicks
    /\ DOMAIN Val(last.stats).upcomingReviews = {31}
    /\ Val(last.stats).upcomingReviews[31] = 1

(***************************************************************************)
(* Properties of the edits of tags and notes, and of card creation.        *)
(***************************************************************************)
\* C26: updateCardTags changes the tags, and updateCardNotes the notes, of the
\* card it is called for and nothing else: the store keeps its cards in their
\* places, every other card keeps every field, and the card keeps its id,
\* question, answer and scheduling fields, also when the notes are edited at
\* the end of the card's review in a session.
C26_EditsTouchOneField ==
    [][(last'.op \in {"updateCardTags", "updateCardNotes"} /\ last'.err = "") =>
        /\ Ids(load') = Ids(load)
        /\ \A i \in 1..Len(load) :
            IF load[i].id # last'.cardId THEN load'[i] = load[i]
            ELSE IF last'.op = "updateCardTags"
            THEN load'[i] = [load[i] EXCEPT !.tags = last'.tags]
            ELSE /\ load'[i] = [load[i] EXCEPT !.notes = load'[i].notes]
                 /\ IsDefined(load'[i].notes)]_vars

\* at the end of its review in a session a tagged card was rated 4 and then
\* annotated: the stored card has the review and the notes
C26_Witness ==
    /\ last.op = "updateCardNotes"
    /\ last.err = ""
    /\ TheCard(load, last.cardId).tags = {"t1"}
    /\ TheCard(load, last.cardId).performance = <<Num(4)>>
    /\ TheCard(load, last.cardId).repetition = 1
    /\ IsDefined(TheCard(load, last.cardId).notes)

\* C27: saveRawCards puts the cards it made after the stored ones.  Each new
\* card has EF 2.5, interval 0, repetition 0, the time of creation as its due
\* date (so it is due at once), an empty history, no lastRating and no
\* lastReview, and an id no stored card has; every card that was stored is in
\* its place with all its fields.
C27_SaveAppendsDefaults ==
    [][(last'.op = "saveRawCards" /\ last'.err = "") =>
        LET parsed == last'.result IN
        /\ Len(load') = Len(load) + Len(parsed)
        /\ \A i \in 1..Len(load) : load'[i] = load[i]
        /\ \A k \in 1..Len(parsed) :
            LET card == load'[Len(load) + k] IN
            /\ card = parsed[k]
            /\ card.EF = 2500
            /\ card.interval = 0
            /\ card.repetition = 0
            /\ parseDate(card.dueDate) = now
            /\ isDue(card, now)
            /\ card.performance = <<>>
            /\ ~IsDefined(card.lastRating)
            /\ ~IsDefined(card.lastReview)
            /\ \A i \in 1..Len(load') : load'[i].id = card.id => i = Len(load) + k]_vars

\* a card made when the stored card had been reviewed and time had passed is
\* second in the store, behind the reviewed one
C27_Witness ==
    /\ last.op = "saveRawCards"
    /\ now > 0
    /\ Len(last.result) = 1
    /\ Len(load) = 2
    /\ Len(load[1].performance) = 1
    /\ load[2] = last.result[1]
    /\ parseDate(load[2].dueDate) = now

(***************************************************************************)
(* Invariants of the scheduling fields.                                    *)
(***************************************************************************)
\* how many ratings >= 3 end the history
RECURSIVE SuccessRun(_)
SuccessRun(history) ==
    IF history = <<>> THEN 0
    ELSE IF history[Len(history)] < Num(3) THEN 0
    ELSE 1 + SuccessRun(SubSeq(history, 1, Len(history) - 1))

C29_IntervalZeroIffNew ==
    /\ \A i \in 1..Len(load) :
        /\ load[i].interval = 0 <=> load[i].performance = <<>>
        /\ load[i].performance = <<>> <=> ~IsDefined(load[i].lastReview)
        /\ IsDefined(load[i].lastReview) =>
            /\ load[i].interval >= 1
            /\ parseDate(load[i].dueDate) > parseDate(Val(load[i].lastReview))
    /\ (last.op = "reviewCard" /\ last.err = "") =>
        /\ parseDate(Val(TheCard(load, last.cardId).lastReview)) = now
        /\ ~isDue(TheCard(load, last.cardId), now)

\* a new card was rated 2 and then 0 in one stay: it is shown again, its
\* interval is 1 and it is due tomorrow
C29_Witness ==
    /\ pc = "present"
    /\ last.op = "reviewCard"
    /\ TheCard(load, last.cardId).performance = <<Num(2), Num(0)>>
    /\ TheCard(load, last.cardId).interval = 1
    /\ parseDate(TheCard(load, last.cardId).dueDate) = now + DayTicks

(***************************************************************************)
(* Properties of the prioritized due queue.                                *)
(***************************************************************************)
\* C30: in every reachable state the list getDueCards(true) returns is a
\* permutation of the due set: every stored card with dueDate <= now is in it
\* exactly once, and nothing else is in it.
C30_QueueIsPermutationOfDue ==
    (last.op = "getDueCards" /\ last.flag) =>
        /\ \A i \in 1..Len(load) :
            parseDate(load[i].dueDate) <= now =>
                Cardinality({k \in 1..Len(last.result) :
                                last.result[k].id = load[i].id}) = 1
        /\ \A k \in 1..Len(last.result) :
            \E i \in 1..Len(load) :
                /\ last.result[k] = load[i]
                /\ parseDate(load[i].dueDate) <= now

(***************************************************************************)
(* Invariants of the optional fields.                                      *)
(***************************************************************************)
\* C31: for every stored card lastRating is defined exactly if lastReview is,
\* and exactly if the performance history is not empty, and it is then the
\* last entry of the history.  A card that was never reviewed is not treated
\* as one rated 0: getDueCards(true) returns it once, and behind every failed
\* and difficult card it returns.
C31_LastRatingIsLastEntry ==
    /\ \A i \in 1..Len(load) :
        /\ IsDefined(load[i].lastRating) <=> IsDefined(load[i].lastReview)
        /\ IsDefined(load[i].lastRating) <=> load[i].performance # <<>>
        /\ IsDefined(load[i].lastRating) =>
            Val(load[i].lastRating)
                = load[i].performance[Len(load[i].performance)]
    /\ (last.op = "getDueCards" /\ last.flag) =>
        \A k \in 1..Len(last.result) :
            ~IsDefined(last.result[k].lastRating) =>
                /\ \A j \in 1..Len(last.result) :
                    last.result[j].id = last.result[k].id => j = k
                /\ \A j \in 1..Len(last.result) :
                    (/\ IsDefined(last.result[j].lastRating)
                     /\ Val(last.result[j].lastRating) <= Num(3)) => j < k

\* the second card was rated 4 and then 2 and is due again, the first was
\* never reviewed: getDueCards(true) returns the second, then the first
C31_Witness ==
    /\ last.op = "getDueCards"
    /\ last.flag
    /\ Len(load) = 2
    /\ load[1].performance = <<>>
    /\ ~IsDefined(load[1].lastRating)
    /\ load[2].performance = <<Num(4), Num(2)>>
    /\ load[2].lastRating = Some(Num(2))
    /\ Ids(last.result) = <<load[2].id, load[1].id>>

\* C32: generateCardsFromText always ends by returning a string and never
\* throws: whatever the API answers, a call makes at most 6 requests (the first
\* one, at most maxRetries retries counted across all models, at most 2
\* fallbacks to the next model), its model index never decreases, and an error
\* left after the retries and fallbacks is returned as a message.
C32_AlwaysReturnsAString ==
    /\ [](/\ ai.requests <= 6
          /\ ai.retries <= maxRetries
          /\ ai.modelIndex <= Len(freeModels) - 1
          /\ ai.requests <= 1 + ai.retries + ai.modelIndex
          /\ ai.pc # "threw"
          /\ ai.pc = "returned" => (ai.result \in STRING /\ ai.result # ""))
    /\ [][ai.pc = "request" =>
            /\ ai'.modelIndex >= ai.modelIndex
            /\ ai'.retries >= ai.retries
            /\ ai'.requests <= ai.requests + 1
            /\ ai'.pc = "request" <=> ai'.requests = ai.requests + 1]_vars
    /\ (ai.pc = "request") ~> (ai.pc = "returned")

C32_Witness ==
    /\ ai.pc = "returned"
    /\ ai.requests = 6
    /\ ai.retries = maxRetries
    /\ ai.modelIndex = Len(freeModels) - 1
    /\ ai.result = "Rate limit exceeded."

====
